---- MODULE Spec2Model ----
(***************************************************************************)
(* Model of the Spartan R&D gRNA discovery / lambda scoring application.   *)
(*                                                                         *)
(*   App component (src/unnamed/part_000): FASTA discovery of gRNA         *)
(*     candidates (discoverGrnasFromFasta), driven by the PAM input and    *)
(*     the discovery effect.                                               *)
(*   Scoring service (src/unnamed/part_003): codonToInt, isPrime,          *)
(*     semiprimeFactors.                                                   *)
(*                                                                         *)
(* Strings are sequences of one-character strings; a JavaScript offset i   *)
(* is element i+1 of the sequence.                                         *)
(***************************************************************************)
EXTENDS Integers, Sequences, FiniteSets, TLC

VARIABLES
    processingMode,        \* useState<ProcessingMode>
    fastaContent,          \* useState<FastaSequence[] | null>
    pamPattern,            \* useState<string>
    inputData,             \* useState<CsvRow[] | null>
    error,                 \* useState<string | null>
    loading,               \* useState<boolean>
    discoveredGrnasCount,  \* useState<number | null>
    pc,                    \* position of the discovery effect / handler
    sequence,              \* local of discoverGrnasFromFasta
    sequenceHeader,        \* local of discoverGrnasFromFasta
    pamRegex,              \* local: the compiled RegExp and its lastIndex
    discoveredGrnas,       \* local: candidates collected so far
    edits,                 \* number of PAM input edits made so far
    fn,                    \* service function under call ("none" in the App)
    arg,                   \* its argument
    ret,                   \* its outcome
    calls,                 \* number of calls of the scorer made so far
    scorePc,               \* position inside analyzeSequenceForScore
    protospacer,           \* local of analyzeSequenceForScore
    windowI,               \* local i of the window loop
    totalLambda,           \* local: the terms added to the total so far
    windowsSeen,           \* history: the windows the loop has examined
    processedData,         \* useState<CsvRow[] | null>
    inputFileName,         \* useState<string | null>
    specificityLoading,    \* useState<boolean>
    specificityError,      \* useState<string | null>
    timers,                \* pending setTimeout callbacks with the rows they captured
    reads,                 \* pending FileReader reads with the handler they captured
    stale,                 \* effects whose dependencies changed in the last render
    flush,                 \* the discovery effect in progress and the render it runs in
    events,                \* number of user events so far
    lastEvent              \* history: the last user event

vars == <<processingMode, fastaContent, pamPattern, inputData, error, loading,
          discoveredGrnasCount, pc, sequence, sequenceHeader, pamRegex,
          discoveredGrnas, edits, fn, arg, ret, calls, scorePc, protospacer,
          windowI, totalLambda, windowsSeen,
          processedData, inputFileName, specificityLoading, specificityError,
          timers, reads, stale, flush, events, lastEvent>>

uiVars == <<inputFileName, specificityLoading, specificityError, timers, reads,
            stale, flush, events, lastEvent>>

appVars == <<processingMode, fastaContent, pamPattern, inputData, error, loading,
             discoveredGrnasCount, pc, sequence, sequenceHeader, pamRegex,
             discoveredGrnas, edits, uiVars>>

callVars == <<fn, arg, ret>>

scoreVars == <<calls, scorePc, protospacer, windowI, totalLambda, windowsSeen>>

----------------------------------------------------------------------------
(* Bounds of the model *)

\* longest tail appended to the run of 'A's that starts a FASTA sequence
MaxTail == 4

\* number of edits of the PAM input field that are followed
MaxEdits == 1

\* largest argument handed to semiprimeFactors
MaxN == 4095

\* largest factor handed to fingerprint
MaxFactor == 12

\* longest seed whose repetition fills a protospacer handed to the scorer
SeedLen == 3

\* largest step handed to the scorer
MaxStep == 3

\* number of consecutive calls of the scorer that are followed
MaxCalls == 2

\* longest list of rows handed to the batch driver
MaxRows == 3

\* number of examined windows the history keeps
MaxHistory == 16

\* number of user events (files picked, button clicks, PAM edits)
MaxEvents == 3

----------------------------------------------------------------------------
(* JavaScript values and string primitives *)

\* null of a nullable array state
Null == [isNull |-> TRUE]

\* a non-null array value
Rows(r) == [isNull |-> FALSE, rows |-> r]

\* null of the error state
NoError == [kind |-> "null"]

\* a service function that has not been called yet
NotCalled == [state |-> "pending"]

\* a normal return of a service function
Return(v) == [state |-> "returned", value |-> v]

\* throw new ValueError(message): the message is its fixed text and the
\* values interpolated into it
Throw(name, text, values) ==
    [state |-> "threw", name |-> name, text |-> text, values |-> values]

\* String.prototype.toUpperCase on one character
UpperChar(c) ==
    CASE c = "a" -> "A"
      [] c = "c" -> "C"
      [] c = "g" -> "G"
      [] c = "t" -> "T"
      [] c = "n" -> "N"
      [] c = "x" -> "X"
      [] OTHER   -> c

\* String.prototype.toUpperCase
ToUpperCase(s) == [k \in 1..Len(s) |-> UpperChar(s[k])]

Min(S) == CHOOSE m \in S : \A n \in S : m <= n

Clamp(i, len) == IF i < 0 THEN 0 ELSE IF i > len THEN len ELSE i

\* String.prototype.substring(start, end): both ends clamped to the string,
\* swapped when start > end
Substring(s, start, end) ==
    LET a == Clamp(start, Len(s))
        b == Clamp(end, Len(s))
        lo == IF a <= b THEN a ELSE b
        hi == IF a <= b THEN b ELSE a
    IN  SubSeq(s, lo + 1, hi)

\* String.prototype.indexOf(ch): offset of the first occurrence, -1 if none
IndexOf(s, ch) ==
    IF \E k \in 1..Len(s) : s[k] = ch
    THEN Min({k \in 1..Len(s) : s[k] = ch}) - 1
    ELSE -1

\* the character class [ACGT]
ACGT == {"A", "C", "G", "T"}

----------------------------------------------------------------------------
(* Scoring service: codon encoding *)

BASE4_T_as_G == [c \in ACGT |-> CASE c = "A" -> 0 [] c = "C" -> 1 [] c = "G" -> 2 [] c = "T" -> 2]

\* const BASE4 = { "A": 0, "C": 1, "G": 2, "T": 3 }
BASE4 == [c \in ACGT |-> CASE c = "A" -> 0 [] c = "C" -> 1 [] c = "G" -> 2 [] c = "T" -> 3]

\* the table filled by the three nested loops over "ACGT"
CODON2INT ==
    [codon \in {<<a, b, c>> : a \in ACGT, b \in ACGT, c \in ACGT} |->
        BASE4[codon[1]] * 16 + BASE4[codon[2]] * 4 + BASE4[codon[3]]]

\* /^[ACGT]+$/.test(s)
IsAcgtString(s) == Len(s) >= 1 /\ \A k \in 1..Len(s) : s[k] \in ACGT

InvalidCodonText == "Invalid codon: \"${codon}\". Codon must be 3 bases long and contain only A, C, G, T."

\* a lookup of a key the table does not hold
Undefined == [state |-> "returned", undefined |-> TRUE]

codonToInt_LengthOnly(codon) ==
    LET up == ToUpperCase(codon)
    IN  IF Len(up) # 3
        THEN Throw("ValueError", InvalidCodonText, <<up>>)
        ELSE IF up \in DOMAIN CODON2INT THEN Return(CODON2INT[up]) ELSE Undefined

codonToInt_NoUpperCase(codon) ==
    IF Len(codon) # 3 \/ ~IsAcgtString(codon)
    THEN Throw("ValueError", InvalidCodonText, <<codon>>)
    ELSE Return(CODON2INT[codon])

\* codonToInt: upper-case, validate, look up
codonToInt(codon) ==
    LET up == ToUpperCase(codon)
    IN  IF Len(up) # 3 \/ ~IsAcgtString(up)
        THEN Throw("ValueError", InvalidCodonText, <<up>>)
        ELSE Return(CODON2INT[up])

----------------------------------------------------------------------------
(* Scoring service: primality and semiprime factorization *)

RECURSIVE isPrimeLoop(_, _)
\* for (let i = 5; i * i <= num; i = i + 6)
isPrimeLoop(num, i) ==
    IF i * i <= num
    THEN IF num % i = 0 \/ num % (i + 2) = 0
         THEN FALSE
         ELSE isPrimeLoop(num, i + 6)
    ELSE TRUE

RECURSIVE isPrimeLoop_OnlyI(_, _)
isPrimeLoop_OnlyI(num, i) ==
    IF i * i <= num
    THEN IF num % i = 0
         THEN FALSE
         ELSE isPrimeLoop_OnlyI(num, i + 6)
    ELSE TRUE

isPrime_Skip6kPlus1(num) ==
    IF num <= 1 THEN FALSE
    ELSE IF num <= 3 THEN TRUE
    ELSE IF num % 2 = 0 \/ num % 3 = 0 THEN FALSE
    ELSE isPrimeLoop_OnlyI(num, 5)

RECURSIVE isPrimeLoop_StrictSquare(_, _)
isPrimeLoop_StrictSquare(num, i) ==
    IF i * i < num
    THEN IF num % i = 0 \/ num % (i + 2) = 0
         THEN FALSE
         ELSE isPrimeLoop_StrictSquare(num, i + 6)
    ELSE TRUE

isPrime_StrictSquare(num) ==
    IF num <= 1 THEN FALSE
    ELSE IF num <= 3 THEN TRUE
    ELSE IF num % 2 = 0 \/ num % 3 = 0 THEN FALSE
    ELSE isPrimeLoop_StrictSquare(num, 5)

\* isPrime
isPrime(num) ==
    IF num <= 1 THEN FALSE
    ELSE IF num <= 3 THEN TRUE
    ELSE IF num % 2 = 0 \/ num % 3 = 0 THEN FALSE
    ELSE isPrimeLoop(num, 5)

TooSmallText == "Input must be greater than 1 for semiprime factorization."

NotSemiprimeText == "Number ${n} is not a semiprime (product of exactly two primes)."

RECURSIVE semiprimeLoop(_, _)
\* for (let i = 2; i * i <= n; i++), and the throw after it
semiprimeLoop(n, i) ==
    IF i * i <= n
    THEN IF n % i = 0 /\ isPrime(i) /\ isPrime(n \div i)
         THEN Return(<<i, n \div i>>)
         ELSE semiprimeLoop(n, i + 1)
    ELSE Throw("ValueError", NotSemiprimeText, <<n>>)

semiprimeFactors_NoGuard(n) == semiprimeLoop(n, 2)

RECURSIVE semiprimeLoop_CofactorOnly(_, _)
semiprimeLoop_CofactorOnly(n, i) ==
    IF i * i <= n
    THEN IF n % i = 0 /\ isPrime(n \div i)
         THEN Return(<<i, n \div i>>)
         ELSE semiprimeLoop_CofactorOnly(n, i + 1)
    ELSE Throw("ValueError", NotSemiprimeText, <<n>>)

semiprimeFactors_CofactorOnly(n) ==
    IF n <= 1
    THEN Throw("ValueError", TooSmallText, <<>>)
    ELSE semiprimeLoop_CofactorOnly(n, 2)

\* semiprimeFactors
semiprimeFactors(n) ==
    IF n <= 1
    THEN Throw("ValueError", TooSmallText, <<>>)
    ELSE semiprimeLoop(n, 2)

\* A call of semiprimeFactors(arg).
CallSemiprimeFactors ==
    /\ fn = "semiprimeFactors"
    /\ ret = NotCalled
    /\ ret' = semiprimeFactors(arg)
    /\ UNCHANGED <<fn, arg, appVars, scoreVars, processedData>>

\* A call of isPrime(arg).
CallIsPrime ==
    /\ fn = "isPrime"
    /\ ret = NotCalled
    /\ ret' = Return(isPrime(arg))
    /\ UNCHANGED <<fn, arg, appVars, scoreVars, processedData>>

\* A call of codonToInt(arg).
CallCodonToInt ==
    /\ fn = "codonToInt"
    /\ ret = NotCalled
    /\ ret' = codonToInt(arg)
    /\ UNCHANGED <<fn, arg, appVars, scoreVars, processedData>>

----------------------------------------------------------------------------
(* Scoring service: the lambda fingerprint *)

(* A JavaScript number produced by fingerprint is kept exact: either the   *)
(* literal 0.0, or the quotient deltaSq / (m * ln(twiceA / 2)), held by    *)
(* its three integer ingredients.                                          *)

\* the literal 0.0
ZeroFloat == [literal |-> 0]

\* (delta ** 2) / (m * Math.log(a)) with a = twiceA / 2
Lambda(deltaSq, m, twiceA) == [deltaSq |-> deltaSq, m |-> m, twiceA |-> twiceA]

\* Math.abs
Abs(x) == IF x < 0 THEN -x ELSE x

fingerprint_GuardBelowOne(p, q) ==
    IF p * q = 0 \/ p + q < 2
    THEN ZeroFloat
    ELSE Lambda(Abs(p - q) * Abs(p - q), p * q, p + q)

fingerprint_SignedDelta(p, q) ==
    IF p * q = 0 \/ p + q <= 2
    THEN ZeroFloat
    ELSE Lambda(p - q, p * q, p + q)

\* fingerprint: a = (p + q) / 2 is at most 1 exactly when p + q <= 2
fingerprint(p, q) ==
    LET twiceA == p + q
        m == p * q
        delta == Abs(p - q)
    IN  IF m = 0 \/ twiceA <= 2
        THEN ZeroFloat
        ELSE Lambda(delta * delta, m, twiceA)

\* A call of fingerprint(arg[1], arg[2]).
CallFingerprint ==
    /\ fn = "fingerprint"
    /\ ret = NotCalled
    /\ ret' = Return(fingerprint(arg[1], arg[2]))
    /\ UNCHANGED <<fn, arg, appVars, scoreVars, processedData>>

----------------------------------------------------------------------------
(* Scoring service: analyzeSequenceForScore *)

\* 20bp protospacer + 3bp PAM
MinScoreLen == 23

\* two codons
WindowLen == 6

\* pam.toUpperCase().replace('N', '[ACGT]'): a string pattern replaces the
\* first N only; every later N stays the literal letter N
ScorerCompilePam(pam) ==
    LET up == ToUpperCase(pam)
        firstN == IndexOf(up, "N") + 1
    IN  [k \in 1..Len(up) |-> IF k = firstN THEN ACGT ELSE {up[k]}]

\* new RegExp(`^...$`).test(s): the whole of s matches the pattern
ScorerPamTest(pam, s) ==
    /\ Len(s) = Len(ScorerCompilePam(pam))
    /\ \A k \in 1..Len(s) : s[k] \in ScorerCompilePam(pam)[k]

\* if (seq.length < 23)
TooShort(seq) == Len(seq) < MinScoreLen

ScoreGuard_MotifToEnd(seq, pam) ==
    LET pamSeqFromInput == ToUpperCase(Substring(seq, 20, Len(seq)))
    IN  IF TooShort(seq) THEN "too short"
        ELSE IF ~ScorerPamTest(pam, pamSeqFromInput)
             THEN "PAM does not match"
        ELSE IF ~IsAcgtString(ToUpperCase(Substring(seq, 0, 20)))
             THEN "invalid protospacer"
        ELSE "pass"

ScoreGuard_NoAlphabetCheck(seq, pam) ==
    LET pamSeqFromInput == ToUpperCase(Substring(seq, 20, 23))
    IN  IF TooShort(seq) THEN "too short"
        ELSE IF ~(Len(pamSeqFromInput) = 3 /\ ScorerPamTest(pam, pamSeqFromInput))
             THEN "PAM does not match"
        ELSE "pass"

\* the guards in front of the window loop: which of them returns 0.0
ScoreGuard(seq, pam) ==
    LET pamSeqFromInput == ToUpperCase(Substring(seq, 20, 23))
    IN  IF TooShort(seq) THEN "too short"
        ELSE IF ~(Len(pamSeqFromInput) = 3 /\ ScorerPamTest(pam, pamSeqFromInput))
             THEN "PAM does not match"
        ELSE IF ~IsAcgtString(ToUpperCase(Substring(seq, 0, 20)))
             THEN "invalid protospacer"
        ELSE "pass"

WindowFits_Strict(p, i) == i < Len(p) - WindowLen

\* the loop condition i <= protospacer.length - 6
WindowFits(p, i) == i <= Len(p) - WindowLen

\* N = c1 * 64 + c2
WindowInteger(c1, c2) == c1 * 64 + c2

\* the N computed for the window at offset i, -1 when a codon was rejected
WindowNumber(p, i) ==
    LET c1 == codonToInt(Substring(p, i, i + 3))
        c2 == codonToInt(Substring(p, i + 3, i + 6))
    IN  IF c1.state = "returned" /\ c2.state = "returned"
        THEN WindowInteger(c1.value, c2.value)
        ELSE -1

WindowOutcome_Uncaught(p, i) ==
    LET codon1Str == Substring(p, i, i + 3)
        codon2Str == Substring(p, i + 3, i + 6)
        c1 == codonToInt(codon1Str)
        c2 == codonToInt(codon2Str)
        f == semiprimeFactors(WindowInteger(c1.value, c2.value))
    IN  IF f.state = "threw"
        THEN [kind |-> "threw", thrown |-> f]
        ELSE [kind |-> "scored",
              N |-> WindowInteger(c1.value, c2.value),
              p |-> f.value[1],
              q |-> f.value[2],
              lambda |-> fingerprint(f.value[1], f.value[2])]

\* the body of the loop for the window at offset i: what the try block did
WindowOutcome(p, i) ==
    LET codon1Str == Substring(p, i, i + 3)
        codon2Str == Substring(p, i + 3, i + 6)
        c1 == codonToInt(codon1Str)
        c2 == codonToInt(codon2Str)
    IN  IF Len(codon1Str) # 3 \/ Len(codon2Str) # 3
        THEN [kind |-> "continue"]
        ELSE IF c1.state = "threw"
        THEN [kind |-> "caught", thrown |-> c1]
        ELSE IF c2.state = "threw"
        THEN [kind |-> "caught", thrown |-> c2]
        ELSE LET f == semiprimeFactors(WindowInteger(c1.value, c2.value))
             IN  IF f.state = "threw"
                 THEN [kind |-> "caught", thrown |-> f]
                 ELSE [kind |-> "scored",
                       N |-> WindowInteger(c1.value, c2.value),
                       p |-> f.value[1],
                       q |-> f.value[2],
                       lambda |-> fingerprint(f.value[1], f.value[2])]

\* the number -t
Negated(t) == IF t = ZeroFloat THEN t ELSE Lambda(0 - t.deltaSq, t.m, t.twiceA)

AddLambda_Subtract(total, o) ==
    IF o.kind = "scored" THEN Append(total, Negated(o.lambda)) ELSE total

AddLambda_Assign(total, o) ==
    IF o.kind = "scored" THEN <<o.lambda>> ELSE total

\* totalLambda += fingerprint(p, q): the total is the sequence of its terms
AddLambda(total, o) ==
    IF o.kind = "scored" THEN Append(total, o.lambda) ELSE total

\* the number that is the sum of the terms, 0.0 when there is none
SumOf(terms) == [number |-> terms]

\* return totalLambda: the caller gets the number and nothing else
ScoreResult(total) == Return(SumOf(total))

FreshTotal_Kept(previous) == previous

\* let totalLambda = 0.0: a local of the call, it never holds what the
\* previous call left
FreshTotal(previous) == <<>>

RECURSIVE ScoreLoop(_, _, _, _)
\* the window loop run to its end
ScoreLoop(p, i, step, total) ==
    IF WindowFits(p, i)
    THEN ScoreLoop(p, i + step, step, AddLambda(total, WindowOutcome(p, i)))
    ELSE ScoreResult(total)

\* analyzeSequenceForScore(seq, step, pam), for step >= 1
analyzeSequenceForScore(seq, step, pam) ==
    IF ScoreGuard(seq, pam) # "pass"
    THEN ScoreResult(<<>>)
    ELSE ScoreLoop(ToUpperCase(Substring(seq, 0, 20)), 0, step, <<>>)

\* the scorer when no call is under way
ScorerIdle ==
    /\ calls = 0
    /\ scorePc = "idle"
    /\ protospacer = <<>>
    /\ windowI = 0
    /\ totalLambda = <<>>
    /\ windowsSeen = <<>>

\* analyzeSequenceForScore is entered with the arguments a: the guards run,
\* and either 0.0 is returned or the window loop starts.
ScoreCall(a) ==
    /\ fn = "analyzeSequenceForScore"
    /\ scorePc \in {"idle", "done"}
    /\ calls' = calls + 1
    /\ arg' = a
    /\ windowsSeen' = <<>>
    /\ windowI' = 0
    /\ IF ScoreGuard(a.seq, a.pam) # "pass"
       THEN /\ totalLambda' = <<>>
            /\ protospacer' = <<>>
            /\ scorePc' = "done"
            /\ ret' = ScoreResult(<<>>)
       ELSE /\ totalLambda' = FreshTotal(totalLambda)
            /\ protospacer' = ToUpperCase(Substring(a.seq, 0, 20))
            /\ scorePc' = "loop"
            /\ ret' = NotCalled
    /\ UNCHANGED <<fn, appVars, processedData>>

\* the history with one more window, while it has room
Remember(seen, w) == IF Len(seen) < MaxHistory THEN Append(seen, w) ELSE seen

\* One turn of the window loop, or its exit and the return.
ScoreWindowStep ==
    /\ scorePc = "loop"
    /\ IF WindowFits(protospacer, windowI)
       THEN LET o == WindowOutcome(protospacer, windowI)
            IN  /\ windowsSeen' = Remember(windowsSeen,
                        [i |-> windowI, N |-> WindowNumber(protospacer, windowI), outcome |-> o])
                /\ IF o.kind = "threw"
                   THEN /\ ret' = o.thrown
                        /\ scorePc' = "done"
                        /\ UNCHANGED <<windowI, totalLambda>>
                   ELSE /\ totalLambda' = AddLambda(totalLambda, o)
                        /\ windowI' = windowI + arg.step
                        /\ UNCHANGED <<ret, scorePc>>
       ELSE /\ scorePc' = "done"
            /\ ret' = ScoreResult(totalLambda)
            /\ UNCHANGED <<windowI, totalLambda, windowsSeen>>
    /\ UNCHANGED <<fn, arg, calls, protospacer, appVars, processedData>>

----------------------------------------------------------------------------
(* Batch scoring: processDataAndCalculateScores *)

\* parseFloat(totalLambda.toFixed(4)): the total rounded to 4 decimals
Round4(total) == [rounded4 |-> total]

\* row.field?.toString() is undefined or empty
Lacks(row, field) == field \notin DOMAIN row \/ row[field] = <<>>

\* the default pam = 'NGG' of analyzeSequenceForScore
DefaultPam == <<"N", "G", "G">>

\* the default step = 1 of analyzeSequenceForScore
DefaultStep == 1

\* the value a destructuring pattern binds to a name that the value on the
\* right has no property for
NoProperty == [undefined |-> TRUE]

\* const { name } = value: a number has no property of that name
Property(value, name) ==
    IF "number" \in DOMAIN value
    THEN NoProperty
    ELSE [undefined |-> FALSE, value |-> value[name]]

\* `Processing error: ${e.message}` for the TypeError of undefined.toFixed(4)
ToFixedOfUndefined ==
    "Processing error: Cannot read properties of undefined (reading 'toFixed')"

\* analyzeSequenceForScore(fullSequence): what the call for a row passes,
\* the defaults standing in for the arguments it leaves out
ScorerArguments(row) ==
    [seq |-> row.protospacer \o row.PAM, step |-> DefaultStep, pam |-> DefaultPam]

ScoreRow_MissingNotFlagged(row) ==
    IF Lacks(row, "protospacer") \/ Lacks(row, "PAM")
    THEN [lambda_score |-> ZeroFloat] @@ row
    ELSE [lambda_score |-> ZeroFloat, error |-> ToFixedOfUndefined] @@ row

\* the callback of inputData.map: the row with lambda_score 0.0 and an
\* error field when a column is missing or the try block raises, and
\* otherwise the row with what the scorer's result was destructured into
ScoreRow(row) ==
    IF Lacks(row, "protospacer") \/ Lacks(row, "PAM")
    THEN [lambda_score |-> ZeroFloat, error |-> "Missing protospacer or PAM"] @@ row
    ELSE LET a == ScorerArguments(row)
             r == analyzeSequenceForScore(a.seq, a.step, a.pam)
             total == Property(r.value, "totalLambda")
             details == Property(r.value, "factorizationDetails")
         IN  IF total.undefined
             THEN [lambda_score |-> ZeroFloat,
                   error |-> ToFixedOfUndefined] @@ row
             ELSE [lambda_score |-> Round4(total.value),
                   factorization_details |-> details.value] @@ row

\* The effect on inputData: processDataAndCalculateScores, or null.
ProcessDataAndCalculateScores ==
    /\ pc = "scoreEffect"
    /\ IF inputData.isNull
       THEN /\ processedData' = Null
            /\ UNCHANGED <<loading, error>>
       ELSE /\ processedData' =
                  Rows([k \in 1..Len(inputData.rows) |-> ScoreRow(inputData.rows[k])])
            /\ loading' = FALSE
            /\ error' = NoError
    /\ pc' = "idle"
    /\ UNCHANGED <<processingMode, fastaContent, pamPattern, inputData,
                   discoveredGrnasCount, sequence, sequenceHeader, pamRegex,
                   discoveredGrnas, edits, callVars, scoreVars, uiVars>>

----------------------------------------------------------------------------
(* FASTA discovery: discoverGrnasFromFasta and what drives it *)

\* bases required in front of a PAM match
ProtospacerLen == 20

\* null of discoveredGrnasCount
NullCount == [isNull |-> TRUE]

Count(n) == [isNull |-> FALSE, value |-> n]

\* a RegExp before it is constructed
NoRegex == [classes |-> <<>>, lastIndex |-> 0]

\* outcome of RegExp.prototype.exec that found nothing
NoMatch == [found |-> FALSE]

CompilePam_AllWildcards(pattern) ==
    [k \in 1..Len(pattern) |-> ACGT]

\* pamPattern.toUpperCase().replace(/N/g, '[ACGT]'): every N becomes the
\* class [ACGT], every other symbol stays a literal
CompilePam(pattern) ==
    LET up == ToUpperCase(pattern)
    IN  [k \in 1..Len(up) |-> IF up[k] = "N" THEN ACGT ELSE {up[k]}]

\* the compiled pattern matches s at offset i
RegexMatchesAt(classes, s, i) ==
    /\ i >= 0
    /\ i + Len(classes) <= Len(s)
    /\ \A k \in 1..Len(classes) : s[i + k] \in classes[k]

\* RegExp.prototype.exec of a global RegExp: the leftmost match that starts
\* at or after lastIndex, or null
RegExpExec(re, s) ==
    LET starts == {i \in re.lastIndex..Len(s) : RegexMatchesAt(re.classes, s, i)}
    IN  IF starts = {}
        THEN NoMatch
        ELSE [found |-> TRUE,
              index |-> Min(starts),
              match |-> SubSeq(s, Min(starts) + 1, Min(starts) + Len(re.classes))]

\* lastIndex after an exec: end of the match, 0 after a failed search
NextLastIndex(re, m) ==
    IF m.found THEN m.index + Len(m.match) ELSE 0

\* sequence.match(/[^ACGT]/): offset of the first symbol outside ACGT, -1 if none
InvalidCharMatch(s) ==
    IF \E k \in 1..Len(s) : s[k] \notin ACGT
    THEN Min({k \in 1..Len(s) : s[k] \notin ACGT}) - 1
    ELSE -1

\* the Invalid-Input message of discoverGrnasFromFasta
InvalidCharError(header, s) ==
    LET invalidChar == s[InvalidCharMatch(s) + 1]
    IN  [kind |-> "InvalidDnaCharacter",
         header |-> header,
         invalidChar |-> invalidChar,
         invalidCharIndex |-> IndexOf(s, invalidChar)]

\* the 'No gRNA candidates found' message
NoCandidatesError(pattern) == [kind |-> "NoCandidates", pam |-> pattern]

HasProtospacerRoom_NonNegative(pamStart) == pamStart >= 0

\* if (pamStart >= 20)
HasProtospacerRoom(pamStart) == pamStart >= ProtospacerLen

GrnaRow_LocationOfPam(s, header, pamStart, pamSeq) ==
    [protospacer |-> Substring(s, pamStart - ProtospacerLen, pamStart),
     PAM |-> pamSeq,
     sequence_location |-> pamStart,
     source_fasta |-> header]

\* the row pushed for a PAM match
GrnaRow(s, header, pamStart, pamSeq) ==
    [protospacer |-> Substring(s, pamStart - ProtospacerLen, pamStart),
     PAM |-> pamSeq,
     sequence_location |-> pamStart - ProtospacerLen,
     source_fasta |-> header]

\* onChange of the PAM input: toUpperCase().replace(/[^ACGTN]/g, '')
PamInputValue(text) ==
    SelectSeq(ToUpperCase(text), LAMBDA c : c \in ACGT \cup {"N"})

ScannedRecord_Last(records) == records[Len(records)]

\* the record discovery reads: fastaContent[0]
ScannedRecord(records) == records[1]

localsIdle ==
    /\ sequence' = <<>>
    /\ sequenceHeader' = ""
    /\ pamRegex' = NoRegex
    /\ discoveredGrnas' = <<>>

\* The discovery effect (useEffect on processingMode, fastaContent,
\* pamPattern) up to the start of the scan loop of discoverGrnasFromFasta.
DiscoveryEffect ==
    /\ pc = "effect"
    /\ IF processingMode = "fasta" /\ ~fastaContent.isNull
       THEN IF Len(fastaContent.rows) = 0 \/ pamPattern = <<>>
            THEN /\ inputData' = Null
                 /\ pc' = "idle"
                 /\ UNCHANGED <<error, loading, sequence, sequenceHeader,
                                pamRegex, discoveredGrnas>>
            ELSE LET s == ToUpperCase(ScannedRecord(fastaContent.rows).sequence)
                     h == ScannedRecord(fastaContent.rows).header
                 IN  IF InvalidCharMatch(s) >= 0
                     THEN /\ error' = InvalidCharError(h, s)
                          /\ inputData' = Null
                          /\ loading' = FALSE
                          /\ pc' = "idle"
                          /\ localsIdle
                     ELSE /\ error' = NoError
                          /\ loading' = TRUE
                          /\ sequence' = s
                          /\ sequenceHeader' = h
                          /\ pamRegex' = [classes |-> CompilePam(pamPattern),
                                          lastIndex |-> 0]
                          /\ discoveredGrnas' = <<>>
                          /\ pc' = "scan"
                          /\ UNCHANGED inputData
       ELSE /\ inputData' = Null
            /\ pc' = "idle"
            /\ UNCHANGED <<error, loading, sequence, sequenceHeader,
                           pamRegex, discoveredGrnas>>
    /\ UNCHANGED <<processingMode, fastaContent, pamPattern,
                   discoveredGrnasCount, edits, callVars, scoreVars, processedData,
                   uiVars>>

\* One turn of: while ((match = pamRegex.exec(sequence)) !== null) { ... }
ScanStep ==
    /\ pc = "scan"
    /\ LET m == RegExpExec(pamRegex, sequence)
       IN  /\ pamRegex' = [pamRegex EXCEPT !.lastIndex = NextLastIndex(pamRegex, m)]
           /\ IF m.found
              THEN /\ discoveredGrnas' =
                        IF HasProtospacerRoom(m.index)
                        THEN Append(discoveredGrnas,
                                    GrnaRow(sequence, sequenceHeader, m.index, m.match))
                        ELSE discoveredGrnas
                   /\ pc' = "scan"
              ELSE /\ pc' = "end"
                   /\ UNCHANGED discoveredGrnas
    /\ UNCHANGED <<processingMode, fastaContent, pamPattern, inputData, error,
                   loading, discoveredGrnasCount, sequence, sequenceHeader,
                   edits, callVars, scoreVars, processedData, uiVars>>

\* After the loop: publish the candidates or report that there are none.
DiscoverEnd ==
    /\ pc = "end"
    /\ IF Len(discoveredGrnas) = 0
       THEN /\ error' = NoCandidatesError(pamPattern)
            /\ inputData' = Null
            /\ UNCHANGED discoveredGrnasCount
       ELSE /\ inputData' = Rows(discoveredGrnas)
            /\ discoveredGrnasCount' = Count(Len(discoveredGrnas))
            /\ UNCHANGED error
    /\ loading' = FALSE
    /\ pc' = "idle"
    /\ localsIdle
    /\ UNCHANGED <<processingMode, fastaContent, pamPattern, edits, callVars,
                   scoreVars, processedData, uiVars>>

\* The user edits the PAM input while nothing is running or due; the render
\* with a changed pattern starts the discovery effect, whose own render
\* follows it.
PamInputChange(text) ==
    /\ pc = "idle"
    /\ fn = "none"
    /\ stale = {}
    /\ ~flush.active
    /\ edits < MaxEdits
    /\ edits' = edits + 1
    /\ pamPattern' = PamInputValue(text)
    /\ IF PamInputValue(text) # pamPattern
       THEN /\ pc' = "effect"
            /\ flush' = [active |-> TRUE, hadData |-> ~inputData.isNull]
       ELSE UNCHANGED <<pc, flush>>
    /\ UNCHANGED <<processingMode, fastaContent, inputData, error, loading,
                   discoveredGrnasCount, sequence, sequenceHeader, pamRegex,
                   discoveredGrnas, callVars, scoreVars, processedData,
                   inputFileName, specificityLoading, specificityError, timers,
                   reads, stale, events, lastEvent>>

\* null of inputFileName
NoName == [isNull |-> TRUE]

FileName(name) == [isNull |-> FALSE, value |-> name]

\* no discovery effect is in progress
NoFlush == [active |-> FALSE]

\* no user event has happened yet
NoEvent == [kind |-> "none"]

\* the state the remaining useState hooks start in; nothing is pending
UiConstructed ==
    /\ inputFileName = NoName
    /\ specificityLoading = FALSE
    /\ specificityError = NoError
    /\ timers = <<>>
    /\ reads = <<>>
    /\ stale = {}
    /\ flush = NoFlush
    /\ events = 0
    /\ lastEvent = NoEvent

\* After a render the effects that are due run, each on the state of that
\* render.  The effect on inputData is taken first: the two write no hook
\* the other reads, and the discovery effect is the one that takes steps.
RunEffects ==
    /\ pc = "idle"
    /\ ~flush.active
    /\ stale # {}
    /\ IF "score" \in stale
       THEN /\ pc' = "scoreEffect"
            /\ stale' = stale \ {"score"}
            /\ UNCHANGED flush
       ELSE /\ pc' = "effect"
            /\ stale' = {}
            /\ flush' = [active |-> TRUE, hadData |-> ~inputData.isNull]
    /\ UNCHANGED <<processingMode, fastaContent, pamPattern, inputData, error,
                   loading, discoveredGrnasCount, sequence, sequenceHeader,
                   pamRegex, discoveredGrnas, edits, callVars, scoreVars,
                   processedData, inputFileName, specificityLoading,
                   specificityError, timers, reads, events, lastEvent>>

\* The render after the discovery effect: it has set inputData, to null or
\* to a new array, so the effect on inputData is due unless null stayed null.
Rerender ==
    /\ pc = "idle"
    /\ flush.active
    /\ flush' = NoFlush
    /\ stale' = IF flush.hadData \/ ~inputData.isNull THEN {"score"} ELSE {}
    /\ UNCHANGED <<processingMode, fastaContent, pamPattern, inputData, error,
                   loading, discoveredGrnasCount, pc, sequence, sequenceHeader,
                   pamRegex, discoveredGrnas, edits, callVars, scoreVars,
                   processedData, inputFileName, specificityLoading,
                   specificityError, timers, reads, events, lastEvent>>

----------------------------------------------------------------------------
(* Inputs of the discovery specification *)

\* lengths of the run of 'A's a FASTA sequence starts with
PrefixLens == {0, 19, 20}

\* symbols of the tail; g is a lower-case base, X and N are not bases
TailChars == {"C", "G", "g", "X", "N"}

Tails == UNION {[1..k -> TailChars] : k \in 0..MaxTail}

Run(c, n) == [k \in 1..n |-> c]

FastaSequences == {Run("A", n) \o t : n \in PrefixLens, t \in Tails}

\* texts typed into the PAM input
TypedPams == { <<>>, <<"n", "g", "x">>, <<"A">>, <<"C", "G", "G">>, <<"N", "G", "G">> }

InitApp ==
    /\ processingMode = "fasta"
    /\ fastaContent \in {Rows(<<[header |-> "seq1", sequence |-> s]>>) : s \in FastaSequences}
    /\ pamPattern \in {PamInputValue(t) : t \in TypedPams}
    /\ inputData = Null
    /\ error = NoError
    /\ loading = FALSE
    /\ discoveredGrnasCount = NullCount
    /\ pc = "effect"
    /\ sequence = <<>>
    /\ sequenceHeader = ""
    /\ pamRegex = NoRegex
    /\ discoveredGrnas = <<>>
    /\ edits = 0
    /\ processedData = Null
    /\ inputFileName = NoName
    /\ specificityLoading = FALSE
    /\ specificityError = NoError
    /\ timers = <<>>
    /\ reads = <<>>
    /\ stale = {}
    /\ flush = [active |-> TRUE, hadData |-> FALSE]
    /\ events = 0
    /\ lastEvent = NoEvent

\* A FASTA file has been loaded: the render is done and its discovery
\* effect is about to run; the effect on inputData follows its render.
Init ==
    /\ InitApp
    /\ fn = "none"
    /\ arg = 0
    /\ ret = NotCalled
    /\ ScorerIdle

Next ==
    \/ DiscoveryEffect
    \/ ScanStep
    \/ DiscoverEnd
    \/ Rerender
    \/ RunEffects
    \/ ProcessDataAndCalculateScores
    \/ \E text \in TypedPams : PamInputChange(text)

Spec == Init /\ [][Next]_vars

----------------------------------------------------------------------------
(* Specifications of the service functions: the App has just been          *)
(* constructed and one function is called on an argument of its domain.    *)

Constructed ==
    /\ processingMode = "csv"
    /\ fastaContent = Null
    /\ pamPattern = <<"N", "G", "G">>
    /\ inputData = Null
    /\ error = NoError
    /\ loading = FALSE
    /\ discoveredGrnasCount = NullCount
    /\ pc = "idle"
    /\ sequence = <<>>
    /\ sequenceHeader = ""
    /\ pamRegex = NoRegex
    /\ discoveredGrnas = <<>>
    /\ edits = 0
    /\ processedData = Null
    /\ UiConstructed

InitFactor ==
    /\ Constructed
    /\ fn = "semiprimeFactors"
    /\ arg \in -1..MaxN
    /\ ret = NotCalled
    /\ ScorerIdle

NextFactor == CallSemiprimeFactors

SpecFactor == InitFactor /\ [][NextFactor]_vars

InitPrime ==
    /\ Constructed
    /\ fn = "isPrime"
    /\ arg \in -1..MaxN
    /\ ret = NotCalled
    /\ ScorerIdle

NextPrime == CallIsPrime

SpecPrime == InitPrime /\ [][NextPrime]_vars

\* symbols of the codon strings handed to codonToInt
CodonChars == {"A", "C", "G", "T", "a", "c", "g", "t", "N"}

CodonInputs == UNION {[1..k -> CodonChars] : k \in 2..3} \cup {<<"A", "C", "G", "T">>}

InitCodon ==
    /\ Constructed
    /\ fn = "codonToInt"
    /\ arg \in CodonInputs
    /\ ret = NotCalled
    /\ ScorerIdle

NextCodon == CallCodonToInt

SpecCodon == InitCodon /\ [][NextCodon]_vars

----------------------------------------------------------------------------
(* Specification of fingerprint *)

InitFingerprint ==
    /\ Constructed
    /\ fn = "fingerprint"
    /\ arg \in (-2..MaxFactor) \X (-2..MaxFactor)
    /\ ret = NotCalled
    /\ ScorerIdle

NextFingerprint == CallFingerprint

SpecFingerprint == InitFingerprint /\ [][NextFingerprint]_vars

----------------------------------------------------------------------------
(* Specifications of analyzeSequenceForScore *)

\* the first n symbols of the endless repetition of seed
Periodic(seed, n) == [k \in 1..n |-> seed[((k - 1) % Len(seed)) + 1]]

Seeds == UNION {[1..k -> ACGT] : k \in 1..SeedLen}

\* a protospacer whose last symbol alone is outside the alphabet
LastSymbolN == [Periodic(<<"A", "A", "C">>, 20) EXCEPT ![20] = "N"]

\* a protospacer with the window AAAACA (4 = 2 * 2) at offset 0 and the
\* window AAAACG (6 = 2 * 3) at offset 6
SquareThenProduct ==
    <<"A", "A", "A", "A", "C", "A">> \o <<"A", "A", "A", "A", "C", "G">>
        \o Periodic(<<"A">>, 8)

\* protospacers: repeated seeds, one in lower case, two with an N, one
\* with the square of a prime
ScoreProtospacers ==
    {Periodic(seed, 20) : seed \in Seeds}
        \cup {Periodic(<<"a", "c", "g">>, 20), Periodic(<<"A", "A", "C", "N">>, 20),
              LastSymbolN, SquareThenProduct}

\* what follows the protospacer: a motif, a motif cut short, a motif and more
ScoreTails ==
    { <<"C", "G", "G">>, <<"c", "g", "g">>, <<"A", "A", "G">>, <<"A", "N", "G">>,
      <<"T", "T", "T">>, <<"C", "G">>, <<"C", "G", "G", "T">> }

ScorePams == { <<"N", "G", "G">>, <<"n", "g", "g">>, <<"N", "N", "G">> }

ScoreInputs ==
    [seq : {p \o t : p \in ScoreProtospacers, t \in ScoreTails},
     step : 1..MaxStep,
     pam : ScorePams]

NoArgs == [seq |-> <<>>, step |-> 1, pam |-> <<>>]

InitScore ==
    /\ Constructed
    /\ fn = "analyzeSequenceForScore"
    /\ arg = NoArgs
    /\ ret = NotCalled
    /\ ScorerIdle

\* one call on any input
NextScore ==
    \/ calls = 0 /\ \E a \in ScoreInputs : ScoreCall(a)
    \/ ScoreWindowStep

SpecScore == InitScore /\ [][NextScore]_vars

\* the candidates scored one after the other
RepeatInputs ==
    [seq : {Periodic(seed, 20) \o <<"C", "G", "G">> :
                seed \in { <<"A", "A", "C">>, <<"A", "C", "G">>, <<"T">>, <<"G", "T">> }}
             \cup {Periodic(<<"A", "A", "C">>, 20) \o <<"T", "T", "T">>},
     step : {1, 2},
     pam : {<<"N", "G", "G">>}]

\* inputs for any step: candidates of nineteen 'A's and one more base
StepInputs ==
    [seq : {Periodic(<<"A">>, 19) \o <<last>> \o <<"C", "G", "G">> : last \in ACGT},
     step : 0..1,
     pam : {<<"N", "G", "G">>}]

NextStep ==
    \/ calls = 0 /\ \E a \in StepInputs : ScoreCall(a)
    \/ ScoreWindowStep

\* the loop goes on as long as its condition holds
SpecStep == InitScore /\ [][NextStep]_vars /\ WF_vars(ScoreWindowStep)

\* calls that follow one another
NextRepeat ==
    \/ calls < MaxCalls /\ \E a \in RepeatInputs : ScoreCall(a)
    \/ ScoreWindowStep

SpecRepeat == InitScore /\ [][NextRepeat]_vars

----------------------------------------------------------------------------
(* Specification of the batch driver: a CSV file has been loaded *)

GoodProtospacer == Periodic(<<"A", "A", "C">>, 20)

BatchRowKinds ==
    { [protospacer |-> GoodProtospacer, PAM |-> <<"C", "G", "G">>],
      [protospacer |-> Periodic(<<"A", "C", "G">>, 20), PAM |-> <<"T", "G", "G">>, lambda_score |-> ZeroFloat],
      [protospacer |-> GoodProtospacer, PAM |-> <<>>],
      [PAM |-> <<"C", "G", "G">>],
      [protospacer |-> GoodProtospacer, PAM |-> <<"T", "T", "T">>],
      [protospacer |-> <<"A", "C", "G">>, PAM |-> <<"C", "G", "G">>] }

BatchInputs == UNION {[1..k -> BatchRowKinds] : k \in 0..MaxRows}

InitBatch ==
    /\ processingMode = "csv"
    /\ fastaContent = Null
    /\ pamPattern = <<"N", "G", "G">>
    /\ inputData \in {Rows(l) : l \in BatchInputs}
    /\ error = NoError
    /\ loading = FALSE
    /\ discoveredGrnasCount = NullCount
    /\ pc = "scoreEffect"
    /\ sequence = <<>>
    /\ sequenceHeader = ""
    /\ pamRegex = NoRegex
    /\ discoveredGrnas = <<>>
    /\ edits = 0
    /\ processedData = Null
    /\ UiConstructed
    /\ fn = "none"
    /\ arg = 0
    /\ ret = NotCalled
    /\ ScorerIdle

NextBatch == ProcessDataAndCalculateScores

SpecBatch == InitBatch /\ [][NextBatch]_vars

----------------------------------------------------------------------------
(* The file parsers *)

\* white space as trim removes it
IsSpace(c) == c \in {" ", "\t", "\r", "\n"}

RECURSIVE TrimStart(_)
TrimStart(s) == IF s # <<>> /\ IsSpace(Head(s)) THEN TrimStart(Tail(s)) ELSE s

RECURSIVE TrimEnd(_)
TrimEnd(s) ==
    IF s # <<>> /\ IsSpace(s[Len(s)]) THEN TrimEnd(SubSeq(s, 1, Len(s) - 1)) ELSE s

\* String.prototype.trim
Trim(s) == TrimEnd(TrimStart(s))

\* the pieces of s between the separators, piece being the one under way
RECURSIVE SplitFrom(_, _, _)
SplitFrom(s, sep, piece) ==
    IF s = <<>> THEN <<piece>>
    ELSE IF Head(s) = sep THEN <<piece>> \o SplitFrom(Tail(s), sep, <<>>)
    ELSE SplitFrom(Tail(s), sep, Append(piece, Head(s)))

\* String.prototype.split on a separator of one character
Split(s, sep) == SplitFrom(s, sep, <<>>)

\* no record has been started: currentSequence is null
NoRecord == [isNull |-> TRUE]

\* the loop of parseFasta over the lines, with the records pushed so far
\* and the record being read
RECURSIVE parseFastaLoop(_, _, _)
parseFastaLoop(lines, sequences, currentSequence) ==
    IF lines = <<>>
    THEN IF currentSequence.isNull THEN sequences
         ELSE Append(sequences, currentSequence.value)
    ELSE LET trimmedLine == Trim(Head(lines))
         IN  IF trimmedLine # <<>> /\ trimmedLine[1] = ">"
             THEN parseFastaLoop(Tail(lines),
                      IF currentSequence.isNull THEN sequences
                      ELSE Append(sequences, currentSequence.value),
                      [isNull |-> FALSE,
                       value |-> [header |-> Trim(Tail(trimmedLine)), sequence |-> <<>>]])
             ELSE IF ~currentSequence.isNull
             THEN parseFastaLoop(Tail(lines), sequences,
                      [currentSequence EXCEPT !.value.sequence = @ \o trimmedLine])
             ELSE parseFastaLoop(Tail(lines), sequences, currentSequence)

\* parseFasta: text in front of the first header is dropped, the lines of
\* a record are joined
parseFasta(fastaString) ==
    parseFastaLoop(Split(Trim(fastaString), "\n"), <<>>, NoRecord)

\* The property names that occur as the header cells of the files: a name
\* is a string of the module, its text the characters of the file.
PropertyNames == {"protospacer", "PAM", ">s1", "ACGTGG", "ACGT", ""}

NameText(name) ==
    CASE name = "protospacer" ->
             <<"p", "r", "o", "t", "o", "s", "p", "a", "c", "e", "r">>
      [] name = "PAM" -> <<"P", "A", "M">>
      [] name = ">s1" -> <<">", "s", "1">>
      [] name = "ACGTGG" -> <<"A", "C", "G", "T", "G", "G">>
      [] name = "ACGT" -> <<"A", "C", "G", "T">>
      [] name = "" -> <<>>

\* the property name a header cell stands for
PropertyName(text) == CHOOSE name \in PropertyNames : NameText(name) = text

\* the row built from a line of as many cells as there are headers; a
\* header that occurs twice keeps its last cell
CsvRowOf(headers, values) ==
    [h \in {headers[k] : k \in 1..Len(headers)} |->
        LET last == CHOOSE k \in 1..Len(headers) :
                        /\ headers[k] = h
                        /\ \A j \in (k + 1)..Len(headers) : headers[j] # h
        IN  values[last]]

\* the trimmed cells of a line
Cells(line) ==
    LET cells == Split(line, ",")
    IN  [k \in 1..Len(cells) |-> Trim(cells[k])]

\* parseCSV: the first line names the properties, a later line with another
\* number of cells is skipped
parseCSV(csvString) ==
    LET lines == Split(Trim(csvString), "\n")
        cells == Cells(lines[1])
        headers == [k \in 1..Len(cells) |-> PropertyName(cells[k])]
        kept == SelectSeq(Tail(lines), LAMBDA l : Len(Cells(l)) = Len(headers))
    IN  [k \in 1..Len(kept) |-> CsvRowOf(headers, Cells(kept[k]))]

----------------------------------------------------------------------------
(* The event handlers of the App and the effects they cause.  The state    *)
(* updates a handler makes are batched: the next render shows, for each    *)
(* hook, the value of the last update made to it.                          *)

\* the batch of updates made by clearState
clearState ==
    [inputData |-> Null, processedData |-> Null, error |-> NoError,
     inputFileName |-> NoName, fastaContent |-> Null,
     discoveredGrnasCount |-> NullCount, specificityError |-> NoError,
     specificityLoading |-> FALSE]

\* updates made first, then the updates made after them
Then(first, after) == after @@ first

\* the value a hook has after the batch
After(batch, hook, current) == IF hook \in DOMAIN batch THEN batch[hook] ELSE current

\* setError(`Failed to parse ${processingMode.toUpperCase()} file: ${e.message}`)
ParseError(mode, message) == [kind |-> "ParseFailed", mode |-> mode, message |-> message]

\* The render after a batch of updates: every hook takes its last update,
\* and an effect is due when one of its dependencies is another value or
\* another array than before.
Render(batch) ==
    /\ processingMode' = After(batch, "processingMode", processingMode)
    /\ fastaContent' = After(batch, "fastaContent", fastaContent)
    /\ pamPattern' = After(batch, "pamPattern", pamPattern)
    /\ inputData' = After(batch, "inputData", inputData)
    /\ error' = After(batch, "error", error)
    /\ loading' = After(batch, "loading", loading)
    /\ discoveredGrnasCount' = After(batch, "discoveredGrnasCount", discoveredGrnasCount)
    /\ processedData' = After(batch, "processedData", processedData)
    /\ inputFileName' = After(batch, "inputFileName", inputFileName)
    /\ specificityLoading' = After(batch, "specificityLoading", specificityLoading)
    /\ specificityError' = After(batch, "specificityError", specificityError)
    /\ stale' =
          (IF \/ After(batch, "processingMode", processingMode) # processingMode
              \/ After(batch, "pamPattern", pamPattern) # pamPattern
              \/ /\ "fastaContent" \in DOMAIN batch
                 /\ ~(batch.fastaContent.isNull /\ fastaContent.isNull)
           THEN {"discovery"} ELSE {})
          \cup
          (IF /\ "inputData" \in DOMAIN batch
              /\ ~(batch.inputData.isNull /\ inputData.isNull)
           THEN {"score"} ELSE {})

\* nothing is running and no effect is due: the next thing to happen is a
\* user event or a timer
Quiescent ==
    /\ pc = "idle"
    /\ fn = "none"
    /\ stale = {}
    /\ ~flush.active

\* what a handler leaves alone: the locals of the effects and the services
handlerFrame ==
    UNCHANGED <<pc, sequence, sequenceHeader, pamRegex, discoveredGrnas, edits,
                callVars, scoreVars, flush>>

\* handleFile of the FileUpload, on a file chosen in the dialog or dropped
\* on the area: the read is started, and its onload keeps the
\* handleFileLoaded of this render, hence the processingMode of this render
handleFile(file) ==
    /\ Quiescent
    /\ events < MaxEvents
    /\ reads' = Append(reads, [file |-> file, processingMode |-> processingMode])
    /\ lastEvent' = [kind |-> "pick", fileName |-> file.name]
    /\ events' = events + 1
    /\ UNCHANGED <<processingMode, fastaContent, pamPattern, inputData, error,
                   loading, discoveredGrnasCount, processedData, inputFileName,
                   specificityLoading, specificityError, timers, stale>>
    /\ handlerFrame

\* the batch of updates made by handleFileLoaded(content, fileName) as
\* created in a render with the given processingMode
handleFileLoaded(content, fileName, mode) ==
    LET parsed == IF mode = "csv" THEN parseCSV(content) ELSE parseFasta(content)
        started == Then([loading |-> TRUE, error |-> NoError,
                         inputFileName |-> FileName(fileName)],
                        clearState)
        tried == IF Len(parsed) = 0
                 THEN [error |-> ParseError(mode,
                                    IF mode = "csv"
                                    THEN "CSV file is empty or contains no data rows."
                                    ELSE "FASTA file is empty or contains no sequences."),
                       inputData |-> Null,
                       fastaContent |-> Null]
                 ELSE IF mode = "csv"
                      THEN [inputData |-> Rows(parsed)]
                      ELSE [fastaContent |-> Rows(parsed)]
    IN  Then(Then(started, tried), [loading |-> FALSE])

\* the reads without the k-th
Without(pending, k) == SubSeq(pending, 1, k - 1) \o SubSeq(pending, k + 1, Len(pending))

\* reader.onload of one of the pending reads, which end in any order: the
\* handleFileLoaded it kept is called on the text of the file
ReaderOnload ==
    /\ Quiescent
    /\ \E k \in 1..Len(reads) :
          LET read == reads[k]
              batch == handleFileLoaded(read.file.content, read.file.name,
                                        read.processingMode)
          IN  /\ Render(batch)
              /\ reads' = Without(reads, k)
              /\ lastEvent' = [kind |-> "load", fileName |-> read.file.name,
                               parsed |-> batch.error = NoError]
    /\ UNCHANGED <<timers, events>>
    /\ handlerFrame

\* onClick of a mode button
HandleModeButton(mode) ==
    /\ Quiescent
    /\ events < MaxEvents
    /\ Render(Then(clearState, [processingMode |-> mode, pamPattern |-> <<"N", "G", "G">>]))
    /\ lastEvent' = [kind |-> "mode", mode |-> mode]
    /\ events' = events + 1
    /\ UNCHANGED <<timers, reads>>
    /\ handlerFrame

\* onChange of the PAM input, which the FASTA mode shows
HandlePamInput(text) ==
    /\ Quiescent
    /\ events < MaxEvents
    /\ processingMode = "fasta"
    /\ Render([pamPattern |-> PamInputValue(text)])
    /\ lastEvent' = [kind |-> "pam", text |-> text]
    /\ events' = events + 1
    /\ UNCHANGED <<timers, reads>>
    /\ handlerFrame

NoSpecificityError == [kind |-> "NoCandidatesForSpecificity"]

\* onClick of the specificity button, shown with the results and disabled
\* while specificityLoading: calculateSpecificity sets the timer, whose
\* callback keeps the processedData of this render
CalculateSpecificity ==
    /\ Quiescent
    /\ events < MaxEvents
    /\ ~processedData.isNull /\ Len(processedData.rows) > 0
    /\ ~specificityLoading
    /\ IF processedData.isNull \/ Len(processedData.rows) = 0
       THEN /\ Render([specificityError |-> NoSpecificityError])
            /\ UNCHANGED timers
       ELSE /\ Render([specificityLoading |-> TRUE, specificityError |-> NoError])
            /\ timers' = Append(timers, processedData.rows)
    /\ lastEvent' = [kind |-> "specificity"]
    /\ events' = events + 1
    /\ UNCHANGED reads
    /\ handlerFrame

\* setError("No processed data to download.")
NoDataToDownload == [kind |-> "NoProcessedData"]

\* setError(`Failed to generate CSV for download: ${e.message}`), the
\* message being that of whatever the browser raised
DownloadFailed == [kind |-> "DownloadFailed"]

\* a handler that returns without an update
NoUpdates == [hook \in {} |-> NoError]

\* onClick of the download button, shown with the results: the CSV text
\* built from processedData goes to the browser and no hook is set, unless
\* one of the calls in the try block (Blob, URL, the link) raises
handleDownloadResults ==
    /\ Quiescent
    /\ events < MaxEvents
    /\ ~processedData.isNull /\ Len(processedData.rows) > 0
    /\ \E raised \in BOOLEAN :
          /\ Render(IF processedData.isNull THEN [error |-> NoDataToDownload]
                    ELSE IF raised THEN [error |-> DownloadFailed]
                    ELSE NoUpdates)
          /\ lastEvent' = [kind |-> "download", raised |-> raised]
    /\ events' = events + 1
    /\ UNCHANGED <<timers, reads>>
    /\ handlerFrame

\* parseFloat((Math.random() * 100).toFixed(2)), in hundredths: every
\* multiple of 0.01 from 0 to 100
SpecificityScores == 0..10000

\* a number drawn from the set; the draw is left open, the value stands
\* for each member of the set
Random(set) == [drawnFrom |-> set]

\* The callback of the oldest timer runs: the rows it kept get a
\* specificity_score each, drawn independently, and become processedData.
TimerFires ==
    /\ Quiescent
    /\ timers # <<>>
    /\ Render([processedData |->
                  Rows([k \in 1..Len(Head(timers)) |->
                           [specificity_score |-> Random(SpecificityScores)]
                               @@ Head(timers)[k]]),
               specificityLoading |-> FALSE])
    /\ timers' = Tail(timers)
    /\ UNCHANGED <<reads, events, lastEvent>>
    /\ handlerFrame

----------------------------------------------------------------------------
(* Specification of the pipeline tab: the App has been constructed and the *)
(* user picks files, switches mode, edits the PAM and asks for specificity *)

\* a header line of a FASTA file
HeaderLine(name) == <<">">> \o name

\* a record whose candidate for NGG and whose candidate for NGA differ
BothPams == GoodProtospacer \o <<"C", "G", "G", "A">>

\* the text of a file with the given lines
RECURSIVE Text(_)
Text(lines) ==
    IF Len(lines) = 1 THEN lines[1]
    ELSE lines[1] \o <<"\n">> \o Text(Tail(lines))

FastaFiles ==
    { [name |-> "one.fa",
       content |-> Text(<< HeaderLine(<<"s", "1">>), BothPams >>)],
      [name |-> "two.fa",
       content |-> Text(<< <<"A", "C", "G", "T", "G", "G">>,
                           HeaderLine(<<" ", "s", "1", " ">>),
                           SubSeq(GoodProtospacer, 1, 10) \o <<" ">>,
                           SubSeq(GoodProtospacer, 11, 20) \o <<"C", "G", "G">>,
                           HeaderLine(<<"s", "2">>),
                           Run("A", 20) \o <<"T", "G", "G", "G">>,
                           <<>> >>)],
      [name |-> "short.fa",
       content |-> Text(<< HeaderLine(<<"s", "1">>),
                           <<"A", "C", "G", "T">>,
                           HeaderLine(<<"s", "2">>),
                           GoodProtospacer \o <<"C", "G", "G">>,
                           HeaderLine(<<"s", "3">>),
                           <<"A", "X">> >>)],
      [name |-> "bad.fa",
       content |-> Text(<< HeaderLine(<<"s", "1">>),
                           <<"A", "A", "X", "A">>,
                           HeaderLine(<<"s", "2">>),
                           GoodProtospacer \o <<"C", "G", "G">> >>)],
      [name |-> "none.fa",
       content |-> Text(<< <<"A", "C", "G", "T">> >>)] }

\* the header line of the CSV files
CsvHeader == NameText("protospacer") \o <<",">> \o NameText("PAM")

CsvFiles ==
    { [name |-> "a.csv",
       content |-> Text(<< CsvHeader,
                           GoodProtospacer \o <<",", " ", "C", "G", "G">>,
                           <<"A", "C", "G">>,
                           <<>> >>)],
      [name |-> "b.csv",
       content |-> Text(<< CsvHeader,
                           Periodic(<<"A", "C", "G">>, 20) \o <<",", "T", "G", "G">> >>)],
      [name |-> "none.csv",
       content |-> Text(<< CsvHeader, <<"A", "C", "G">> >>)] }

\* texts typed into the PAM input of the pipeline
PipelinePams == { <<"n", "g", "a">>, <<"N", "G", "G">> }

InitPipeline ==
    /\ Constructed
    /\ fn = "none"
    /\ arg = 0
    /\ ret = NotCalled
    /\ ScorerIdle

NextPipeline ==
    \/ \E file \in FastaFiles \cup CsvFiles : handleFile(file)
    \/ ReaderOnload
    \/ \E mode \in {"csv", "fasta"} : HandleModeButton(mode)
    \/ \E text \in PipelinePams : HandlePamInput(text)
    \/ CalculateSpecificity
    \/ handleDownloadResults
    \/ TimerFires
    \/ RunEffects
    \/ Rerender
    \/ DiscoveryEffect
    \/ ScanStep
    \/ DiscoverEnd
    \/ ProcessDataAndCalculateScores

SpecPipeline == InitPipeline /\ [][NextPipeline]_vars

----------------------------------------------------------------------------
(* Vocabulary of the properties, independent of the scan's own matcher *)

\* the upper-cased sequence of the first FASTA record
FastaSeq == ToUpperCase(fastaContent.rows[1].sequence)

FastaHeader == fastaContent.rows[1].header

IsValidDna(s) == \A k \in 1..Len(s) : s[k] \in ACGT

\* the motif pattern occurs in s at offset m
MotifMatchesAt(pattern, s, m) ==
    /\ m >= 0
    /\ m + Len(pattern) <= Len(s)
    /\ \A k \in 1..Len(pattern) :
          IF pattern[k] = "N" THEN s[m + k] \in ACGT ELSE s[m + k] = pattern[k]

\* a discovery over a well-formed pattern and a valid sequence
ScannableInput ==
    /\ ~fastaContent.isNull
    /\ pamPattern # <<>>
    /\ IsValidDna(FastaSeq)

\* the rows describe matches of the current pattern in the current sequence
RowsDescribeMatches(rows) ==
    \A k \in 1..Len(rows) :
        LET r == rows[k]
            m == r.sequence_location + 20
        IN  /\ m >= 20
            /\ MotifMatchesAt(pamPattern, FastaSeq, m)
            /\ r.protospacer = SubSeq(FastaSeq, m - 20 + 1, m)
            /\ r.PAM = SubSeq(FastaSeq, m + 1, m + Len(pamPattern))
            /\ r.source_fasta = FastaHeader
            /\ (k > 1 => rows[k - 1].sequence_location < r.sequence_location)

NGG == <<"N", "G", "G">>

TwentyAs == Run("A", 20)

----------------------------------------------------------------------------
(* Properties of discovery *)

\* C1 (as claimed): once discovery has finished, every offset m >= 20 at
\* which the pattern matches the sequence, overlapping matches included,
\* has a published candidate whose protospacer ends at m.
C1_EveryMatchEmitted ==
    (pc = "idle" /\ ScannableInput) =>
        \A m \in 20..Len(FastaSeq) :
            MotifMatchesAt(pamPattern, FastaSeq, m) =>
                /\ ~inputData.isNull
                /\ \E k \in 1..Len(inputData.rows) :
                       inputData.rows[k].sequence_location = m - 20

\* C2: every candidate, collected or published, comes from a match at
\* m = position + 20: its upstream region is sequence[m-20 .. m), its motif
\* the bases sequence[m .. m+len(pattern)), its source the header, and the
\* positions strictly increase; NGG over 20 'A's + CGG gives exactly the
\* candidate (20 'A's, CGG, 0).
C2_CandidateFields ==
    /\ pc \in {"scan", "end"} => RowsDescribeMatches(discoveredGrnas)
    /\ (pc = "idle" /\ ScannableInput /\ ~inputData.isNull) =>
           RowsDescribeMatches(inputData.rows)
    /\ (pc = "idle" /\ ~fastaContent.isNull /\ pamPattern = NGG
          /\ FastaSeq = TwentyAs \o <<"C", "G", "G">>) =>
           inputData = Rows(<< [protospacer |-> TwentyAs,
                                PAM |-> <<"C", "G", "G">>,
                                sequence_location |-> 0,
                                source_fasta |-> FastaHeader] >>)

C2_Witness ==
    /\ pc = "idle"
    /\ pamPattern = NGG
    /\ ~fastaContent.isNull
    /\ FastaSeq = TwentyAs \o <<"C", "G", "G">>
    /\ ~inputData.isNull
    /\ Len(inputData.rows) = 1
    /\ inputData.rows[1].sequence_location = 0

C3_RowsWellFormed(rows) ==
    \A k \in 1..Len(rows) :
        /\ Len(rows[k].protospacer) = 20
        /\ rows[k].sequence_location >= 0

C3_Inv ==
    /\ C3_RowsWellFormed(discoveredGrnas)
    /\ ~inputData.isNull => C3_RowsWellFormed(inputData.rows)

C3_MatchBelow20 ==
    /\ pc = "scan"
    /\ \E m \in 0..19 :
          /\ m >= pamRegex.lastIndex
          /\ MotifMatchesAt(pamPattern, sequence, m)
          /\ \A j \in pamRegex.lastIndex..(m - 1) : ~MotifMatchesAt(pamPattern, sequence, j)

\* C3: in every state each candidate has an upstream region of exactly 20
\* symbols and a position >= 0, and a scan step whose match starts below
\* offset 20 adds no candidate, sets no error and goes on scanning.
C3_UpstreamAlways20 ==
    /\ []C3_Inv
    /\ [][C3_MatchBelow20 =>
            /\ discoveredGrnas' = discoveredGrnas
            /\ error' = error
            /\ pc' = "scan"]_vars

C3_Witness ==
    /\ pc = "scan"
    /\ Len(discoveredGrnas) = 1
    /\ \E m \in 0..19 : m < pamRegex.lastIndex /\ MotifMatchesAt(pamPattern, sequence, m)

\* offset of the first symbol of s outside {A,C,G,T}
FirstOffending(s) ==
    (CHOOSE k \in 1..Len(s) : s[k] \notin ACGT /\ \A j \in 1..(k - 1) : s[j] \in ACGT) - 1

\* C4 (as claimed): a sequence with a symbol outside {A,C,G,T} is never
\* scanned, no candidate is collected or published, and discovery ends
\* with the Invalid-Input error naming the first offending symbol and its
\* zero-based index.
C4_InvalidInputRejected ==
    (~fastaContent.isNull /\ ~IsValidDna(FastaSeq)) =>
        /\ pc \notin {"scan", "end"}
        /\ discoveredGrnas = <<>>
        /\ inputData = Null
        /\ pc = "idle" =>
               /\ error # NoError
               /\ error.kind = "InvalidDnaCharacter"
               /\ error.header = FastaHeader
               /\ error.invalidCharIndex = FirstOffending(FastaSeq)
               /\ error.invalidChar = FastaSeq[FirstOffending(FastaSeq) + 1]

\* C5 (as claimed): a discovery that ran with an empty pattern has surfaced
\* an error.
C5_EmptyPatternReported ==
    (pc = "idle" /\ ~fastaContent.isNull /\ pamPattern = <<>>) => error # NoError

\* C6: over a valid sequence with no motif occurrence at an offset >= 20
\* (a sequence shorter than 20 + pattern length included) the scan collects
\* nothing and sets no error while it runs, and after it has finished the
\* caller publishes no rows and reports 'no candidates found'.
C6_EmptyScanIsNotAnError ==
    (ScannableInput
       /\ \A m \in 20..Len(FastaSeq) : ~MotifMatchesAt(pamPattern, FastaSeq, m)) =>
        /\ pc \in {"scan", "end"} => (discoveredGrnas = <<>> /\ error = NoError)
        /\ pc = "idle" => (inputData = Null /\ error = NoCandidatesError(pamPattern))

C6_Witness ==
    /\ pc = "idle"
    /\ ScannableInput
    /\ Len(FastaSeq) >= 20 + Len(pamPattern)
    /\ \E m \in 0..19 : MotifMatchesAt(pamPattern, FastaSeq, m)
    /\ inputData = Null
    /\ error = NoCandidatesError(pamPattern)

----------------------------------------------------------------------------
(* Properties of the semiprime decomposer *)

\* n has exactly two positive divisors
HasTwoDivisors(n) == n >= 2 /\ \A d \in 2..(n - 1) : n % d # 0

RECURSIVE PrimeFactorCount(_)
\* number of prime factors of n >= 1, counted with multiplicity
PrimeFactorCount(n) ==
    IF n = 1 THEN 0
    ELSE 1 + PrimeFactorCount(n \div Min({d \in 2..n : n % d = 0}))

FactorCalled == fn = "semiprimeFactors" /\ ret # NotCalled

\* C7: for N >= 2 in the range, semiprimeFactors returns a pair exactly when
\* N is a product of two primes counted with multiplicity, and then p <= q,
\* p*q = N and both are prime; otherwise it fails.
C7_SemiprimeIff ==
    (FactorCalled /\ arg >= 2) =>
        IF PrimeFactorCount(arg) = 2
        THEN /\ ret.state = "returned"
             /\ ret.value[1] <= ret.value[2]
             /\ ret.value[1] * ret.value[2] = arg
             /\ HasTwoDivisors(ret.value[1])
             /\ HasTwoDivisors(ret.value[2])
        ELSE ret.state = "threw"

C7_Witness ==
    /\ FactorCalled
    /\ arg = 4087
    /\ ret = Return(<<61, 67>>)

FactorMustFail == arg <= 1 \/ PrimeFactorCount(arg) # 2

\* C8 (as claimed): when N <= 1 or N has no valid pair, semiprimeFactors
\* fails with an error that carries N.
C8_ErrorCarriesN ==
    (FactorCalled /\ FactorMustFail) =>
        /\ ret.state = "threw"
        /\ ret.name = "ValueError"
        /\ \E k \in 1..Len(ret.values) : ret.values[k] = arg

\* C8 (amended): when N <= 1 or N has no valid pair, semiprimeFactors fails
\* with a ValueError and never returns a pair; the error carries N when
\* N >= 2, and for N <= 1 it is the fixed 'must be greater than 1' message,
\* which does not carry N.
C8_FailsWithValueError ==
    (FactorCalled /\ FactorMustFail) =>
        /\ ret.state = "threw"
        /\ ret.name = "ValueError"
        /\ arg >= 2 => ret.values = <<arg>>
        /\ arg <= 1 => (ret.text = TooSmallText /\ ret.values = <<>>)

C8_Witness ==
    /\ FactorCalled
    /\ arg = 0
    /\ ret.state = "threw"
    /\ ret.values = <<>>

----------------------------------------------------------------------------
(* Properties of the codon encoder *)

Codons == {<<a, b, c>> : a \in ACGT, b \in ACGT, c \in ACGT}

CodonCalled == fn = "codonToInt" /\ ret # NotCalled

\* decoding by table lookup
DecodeCodon(v) == CHOOSE codon \in DOMAIN CODON2INT : CODON2INT[codon] = v

\* C9: on the 64 codons over {A,C,G,T} codonToInt is a bijection onto
\* 0..63: the encoding of the codon is in range, no other codon shares it,
\* every integer of 0..63 is the encoding of a codon, and decoding the
\* encoding gives the codon back.
C9_CodonBijection ==
    /\ \A v \in 0..63 : \E codon \in Codons : codonToInt(codon) = Return(v)
    /\ (CodonCalled /\ arg \in Codons) =>
           /\ ret.state = "returned"
           /\ ret.value \in 0..63
           /\ \A codon \in Codons : codonToInt(codon) = ret => codon = arg
           /\ DecodeCodon(ret.value) = arg

C9_Witness ==
    /\ CodonCalled
    /\ arg = <<"T", "T", "T">>
    /\ ret = Return(63)

\* value of a base letter in either case
BaseValue(c) ==
    CASE c \in {"A", "a"} -> 0
      [] c \in {"C", "c"} -> 1
      [] c \in {"G", "g"} -> 2
      [] c \in {"T", "t"} -> 3

\* C10: for every codon over {A,C,G,T} in any letter case the table result
\* is 16*v(c1) + 4*v(c2) + v(c3); codonToInt("ACG") = 6.
C10_TableEqualsFormula ==
    /\ codonToInt(<<"A", "C", "G">>) = Return(6)
    /\ (CodonCalled /\ Len(arg) = 3
          /\ \A k \in 1..3 : arg[k] \in {"A", "C", "G", "T", "a", "c", "g", "t"}) =>
           ret = Return(16 * BaseValue(arg[1]) + 4 * BaseValue(arg[2]) + BaseValue(arg[3]))

C10_Witness ==
    /\ CodonCalled
    /\ arg = <<"a", "C", "g">>
    /\ ret = Return(6)

\* C11: an input that, upper-cased, is not 3 symbols long or holds a symbol
\* outside {A,C,G,T} (the wildcard N included) makes codonToInt fail with
\* the Invalid-Codon ValueError naming the upper-cased string; nothing is
\* returned.
C11_InvalidCodonRejected ==
    (CodonCalled /\ (Len(arg) # 3 \/ \E k \in 1..Len(arg) : UpperChar(arg[k]) \notin ACGT)) =>
        /\ ret.state = "threw"
        /\ ret.name = "ValueError"
        /\ ret.text = InvalidCodonText
        /\ ret.values = <<ToUpperCase(arg)>>

C11_Witness ==
    /\ CodonCalled
    /\ arg = <<"a", "N", "g">>
    /\ ret.state = "threw"
    /\ ret.values = << <<"A", "N", "G">> >>

----------------------------------------------------------------------------
(* Properties of the fingerprint *)

FingerprintCalled == fn = "fingerprint" /\ ret # NotCalled

\* C12: fingerprint returns exactly 0.0, without raising, when p*q = 0 or
\* (p+q)/2 <= 1, and for every other pair of positive integers the quotient
\* (p-q)^2 / (p*q * ln((p+q)/2)).
C12_FingerprintValue ==
    FingerprintCalled =>
        LET p == arg[1]
            q == arg[2]
        IN  /\ ret.state = "returned"
            /\ (p * q = 0 \/ p + q <= 2) => ret.value = ZeroFloat
            /\ (p >= 1 /\ q >= 1 /\ p + q > 2) =>
                   ret.value = Lambda((p - q) * (p - q), p * q, p + q)

C12_Witness ==
    /\ FingerprintCalled
    /\ arg = <<1, 1>>
    /\ ret = Return(ZeroFloat)

\* C13: fingerprint(p,q) = fingerprint(q,p).
C13_FingerprintSymmetric ==
    FingerprintCalled => ret.value = fingerprint(arg[2], arg[1])

C13_Witness ==
    /\ FingerprintCalled
    /\ arg = <<3, 5>>
    /\ ret = Return(Lambda(4, 15, 8))

----------------------------------------------------------------------------
(* Properties of the window scorer *)

\* the motif pattern accepts the string s as a whole
MotifAccepts(pattern, s) ==
    /\ Len(s) = Len(pattern)
    /\ MotifMatchesAt(ToUpperCase(pattern), s, 0)

\* the upper-cased symbols 20..22 of the scored input
ScoredMotif == ToUpperCase(SubSeq(arg.seq, 21, 23))

\* the upper-cased symbols 0..19 of the scored input
ScoredUpstream == ToUpperCase(SubSeq(arg.seq, 1, 20))

\* the base-4 number spelled by the 6 symbols of s at offset i
WindowValue(s, i) ==
    1024 * BaseValue(s[i + 1]) + 256 * BaseValue(s[i + 2]) + 64 * BaseValue(s[i + 3])
        + 16 * BaseValue(s[i + 4]) + 4 * BaseValue(s[i + 5]) + BaseValue(s[i + 6])

IsSemiprime(n) == n >= 2 /\ PrimeFactorCount(n) = 2

LeastFactor(n) == Min({d \in 2..n : n % d = 0})

ScoreDone == fn = "analyzeSequenceForScore" /\ scorePc = "done"

\* C14 (as claimed): an input shorter than 23 symbols, or a 23-symbol input
\* whose symbols 20..22 the pattern does not accept, gives 0.0, and no
\* window is examined.
C14_RejectedInputScoresZero ==
    (ScoreDone /\ (Len(arg.seq) < 23
                    \/ (Len(arg.seq) = 23 /\ ~MotifAccepts(arg.pam, ScoredMotif)))) =>
        /\ ret = ScoreResult(<<>>)
        /\ windowsSeen = <<>>

\* the window under the loop index has no two-prime factorization
FailingWindowNext ==
    /\ scorePc = "loop"
    /\ windowI <= 14
    /\ ~IsSemiprime(WindowValue(ScoredUpstream, windowI))

\* C15: a window without a two-prime factorization adds nothing to the
\* total and does not end the loop, which goes on to the next offset; the
\* scorer always returns and never raises.
C15_FailingWindowSkipped ==
    /\ [](ScoreDone => ret.state = "returned")
    /\ [][FailingWindowNext =>
            /\ totalLambda' = totalLambda
            /\ windowI' = windowI + arg.step
            /\ scorePc' = "loop"
            /\ ret' = NotCalled]_vars

C15_Witness ==
    /\ scorePc = "loop"
    /\ \E j \in 1..Len(windowsSeen) : \E k \in 1..Len(windowsSeen) :
          /\ j < k
          /\ windowsSeen[j].outcome.kind = "caught"
          /\ windowsSeen[k].outcome.kind = "scored"

\* the offsets 0, s, 2s, ... that are <= 14
WindowOffsets(step) == [k \in 1..((14 \div step) + 1) |-> (k - 1) * step]

\* the offsets of the windows whose integer is a product of two primes
SemiprimeOffsets(s, step) ==
    SelectSeq(WindowOffsets(step), LAMBDA i : IsSemiprime(WindowValue(s, i)))

ExpectedTerm(n) ==
    LET p == LeastFactor(n)
        q == n \div p
    IN  Lambda((p - q) * (p - q), n, p + q)

ExpectedRecord(n) ==
    LET p == LeastFactor(n)
        q == n \div p
    IN  [N |-> n, p |-> p, q |-> q,
         additive_complexity |-> [half |-> p + q],
         multiplicative_resistance |-> n]

\* the scorer went through its window loop
LoopRan == ScoreDone /\ ScoreGuard(arg.seq, arg.pam) = "pass"

\* C16 (as claimed): the scorer returns both a total, the sum in scan
\* order of fingerprint(p,q) over exactly the windows that are products of
\* two primes, and a list holding one record (N, p, q, (p+q)/2, p*q) per
\* such window, in scan order.
C16_TotalAndRecords ==
    LoopRan =>
        LET offs == SemiprimeOffsets(ScoredUpstream, arg.step)
        IN  /\ ret.state = "returned"
            /\ {"totalLambda", "factorizationDetails"} \subseteq DOMAIN ret.value
            /\ ret.value.totalLambda =
                   SumOf([k \in 1..Len(offs) |-> ExpectedTerm(WindowValue(ScoredUpstream, offs[k]))])
            /\ ret.value.factorizationDetails =
                   [k \in 1..Len(offs) |-> ExpectedRecord(WindowValue(ScoredUpstream, offs[k]))]

\* C17: for step s >= 1 the windows examined are those at the offsets
\* 0, s, 2s, ... <= 14, all of them once the loop has ended; each window is
\* the two codons at [i, i+6), its integer is codonToInt(first) * 64 +
\* codonToInt(second), lies in 0..4095, and differs between windows that
\* differ.
C17_WindowsExamined ==
    /\ ScoreDone => Len(windowsSeen) = IF LoopRan THEN Len(WindowOffsets(arg.step)) ELSE 0
    /\ \A k \in 1..Len(windowsSeen) :
          LET w == windowsSeen[k]
              first == SubSeq(ScoredUpstream, w.i + 1, w.i + 3)
              second == SubSeq(ScoredUpstream, w.i + 4, w.i + 6)
          IN  /\ w.i = WindowOffsets(arg.step)[k]
              /\ w.i <= 14
              /\ w.N = codonToInt(first).value * 64 + codonToInt(second).value
              /\ w.N = WindowValue(ScoredUpstream, w.i)
              /\ w.N \in 0..4095
              /\ \A j \in 1..Len(windowsSeen) :
                    windowsSeen[j].N = w.N =>
                        SubSeq(ScoredUpstream, windowsSeen[j].i + 1, windowsSeen[j].i + 6)
                            = first \o second

C17_Witness ==
    /\ LoopRan
    /\ arg.step = 1
    /\ Len(windowsSeen) = 15
    /\ windowsSeen[15].i = 14
    /\ \E k \in 1..15 : windowsSeen[k].N # windowsSeen[1].N

\* C18: the outcome of a call of the scorer is the outcome of scoring its
\* arguments afresh, whatever was scored before it.
C18_NoStateAcrossCalls ==
    ScoreDone => ret = analyzeSequenceForScore(arg.seq, arg.step, arg.pam)

C18_Witness ==
    /\ ScoreDone
    /\ calls = 2
    /\ Len(ret.value.number) >= 1

\* C19 (as claimed): the scorer's re-check and the scanner's matcher both
\* accept exactly the motifs the pattern accepts, with every N a wildcard.
C19_MatchersAgree ==
    (ScoreDone /\ Len(arg.seq) >= 23 /\ IsAcgtString(ScoredUpstream)) =>
        /\ (windowsSeen # <<>>) <=> MotifAccepts(arg.pam, ScoredMotif)
        /\ RegexMatchesAt(CompilePam(arg.pam), ScoredMotif, 0)
               <=> MotifAccepts(arg.pam, ScoredMotif)

----------------------------------------------------------------------------
(* Properties of the batch driver *)

RowLacksInput(row) ==
    \/ "protospacer" \notin DOMAIN row
    \/ "PAM" \notin DOMAIN row
    \/ row.protospacer = <<>>
    \/ row.PAM = <<>>

\* the try block of the row raises: the value the scorer returns has no
\* totalLambda to format
ScoringRaises(row) ==
    LET r == analyzeSequenceForScore(row.protospacer \o row.PAM, 1, NGG)
    IN  r.state = "threw" \/ "totalLambda" \notin DOMAIN r.value

\* C20: the processed list has one row per input row, in the same order and
\* with the input's columns; a row lacking a protospacer or PAM, or whose
\* scoring raises, gets lambda_score 0.0 and an error field, and every
\* other row is scored, whatever rows surround it.
C20_BatchNeverAborts ==
    (pc = "idle" /\ ~inputData.isNull) =>
        /\ ~processedData.isNull
        /\ Len(processedData.rows) = Len(inputData.rows)
        /\ \A k \in 1..Len(inputData.rows) :
              LET in == inputData.rows[k]
                  out == processedData.rows[k]
              IN  /\ \A f \in DOMAIN in \ {"lambda_score"} : out[f] = in[f]
                  /\ IF RowLacksInput(in)
                     THEN /\ out.lambda_score = ZeroFloat
                          /\ "error" \in DOMAIN out
                          /\ out.error = "Missing protospacer or PAM"
                     ELSE IF ScoringRaises(in)
                     THEN /\ out.lambda_score = ZeroFloat
                          /\ "error" \in DOMAIN out
                          /\ out.error # "Missing protospacer or PAM"
                     ELSE /\ "error" \notin DOMAIN out
                          /\ out.lambda_score = Round4(
                                 analyzeSequenceForScore(in.protospacer \o in.PAM, 1, NGG)
                                     .value.totalLambda)

\* three rows have been processed: the one in the middle lacks its PAM,
\* and the rows around it, whose scoring raised, carry that error
C20_Witness ==
    /\ pc = "idle"
    /\ ~inputData.isNull
    /\ ~processedData.isNull
    /\ Len(processedData.rows) = 3
    /\ ~RowLacksInput(inputData.rows[1])
    /\ processedData.rows[1].error = ToFixedOfUndefined
    /\ RowLacksInput(inputData.rows[2])
    /\ processedData.rows[2].error = "Missing protospacer or PAM"
    /\ ~RowLacksInput(inputData.rows[3])
    /\ processedData.rows[3].lambda_score = ZeroFloat
    /\ processedData.rows[3].error = ToFixedOfUndefined

----------------------------------------------------------------------------
(* Properties of the decomposition and the primality test *)

\* the divisors of n among 2..floor(sqrt(n))
SmallDivisors(n) == {d \in 2..n : d * d <= n /\ n % d = 0}

\* C21: for N in 2..4095 with i the smallest divisor of N in
\* 2..floor(sqrt(N)), semiprimeFactors returns (i, N/i) when both are prime
\* and fails otherwise, also when there is no such i; the divisors tried
\* after a rejected first divisor never produce a pair.
C21_DecidedAtFirstDivisor ==
    (FactorCalled /\ arg >= 2) =>
        IF SmallDivisors(arg) = {}
        THEN ret.state = "threw"
        ELSE LET i == Min(SmallDivisors(arg))
             IN  IF HasTwoDivisors(i) /\ HasTwoDivisors(arg \div i)
                 THEN ret = Return(<<i, arg \div i>>)
                 ELSE ret.state = "threw"

C21_Witness ==
    /\ FactorCalled
    /\ arg = 20
    /\ Cardinality(SmallDivisors(arg)) = 2
    /\ ret.state = "threw"

PrimeCalled == fn = "isPrime" /\ ret # NotCalled

\* C22: for every n in 0..4095 isPrime(n) is true exactly when n has
\* exactly two positive divisors.
C22_IsPrimeExact ==
    (PrimeCalled /\ arg >= 0) => ret = Return(HasTwoDivisors(arg))

C22_Witness ==
    /\ PrimeCalled
    /\ arg = 49
    /\ ret = Return(FALSE)

----------------------------------------------------------------------------
(* Properties of the scorer's guards and loop *)

\* a scored candidate whose motif passed the re-check and whose upstream
\* region holds a symbol outside the alphabet
InvalidUpstream ==
    /\ ScoreDone
    /\ Len(arg.seq) >= 23
    /\ ~IsAcgtString(ScoredUpstream)

\* the offsets whose 6 symbols are all valid and spell a product of two primes
CleanSemiprimeOffsets(s, step) ==
    SelectSeq(WindowOffsets(step),
              LAMBDA i : /\ IsAcgtString(SubSeq(s, i + 1, i + 6))
                         /\ IsSemiprime(WindowValue(s, i)))

\* C23 (as claimed): with a symbol outside {A,C,G,T} in the upstream region
\* of a candidate whose motif matches, only the windows over that symbol
\* are skipped: the total is the sum over the other windows.
C23_InvalidSymbolSkipsWindows ==
    (InvalidUpstream /\ ScoreGuard(arg.seq, arg.pam) # "PAM does not match") =>
        LET offs == CleanSemiprimeOffsets(ScoredUpstream, arg.step)
        IN  ret.value.number =
                [k \in 1..Len(offs) |-> ExpectedTerm(WindowValue(ScoredUpstream, offs[k]))]

\* C23 (amended): a candidate of at least 23 symbols whose upstream region
\* holds a symbol outside {A,C,G,T} is rejected as a whole: the result is
\* 0.0 and no window is examined.
C23_InvalidUpstreamScoresZero ==
    InvalidUpstream =>
        /\ ret = ScoreResult(<<>>)
        /\ windowsSeen = <<>>

C23_Witness ==
    /\ InvalidUpstream
    /\ arg.seq = LastSymbolN \o <<"C", "G", "G">>
    /\ arg.pam = <<"N", "G", "G">>
    /\ ScoreGuard(arg.seq, arg.pam) = "invalid protospacer"
    /\ Len(CleanSemiprimeOffsets(ScoredUpstream, arg.step)) >= 1
    /\ ret = ScoreResult(<<>>)

Sign(n) == IF n > 0 THEN 1 ELSE IF n < 0 THEN -1 ELSE 0

\* the sign of a number produced by fingerprint: of 0.0, or of the quotient
\* deltaSq / (m * ln(twiceA / 2))
TermSign(t) ==
    IF t = ZeroFloat THEN 0
    ELSE Sign(t.deltaSq) * Sign(t.m) * Sign(t.twiceA - 2)

\* C24: every term of the running total is >= 0, so the total is
\* non-negative after every window; a window step leaves the total as it
\* was or adds one term >= 0 to it; the term of a decomposed window is 0
\* exactly when p = q and positive when p < q.
C24_TotalNeverDecreases ==
    /\ [](/\ \A k \in 1..Len(totalLambda) : TermSign(totalLambda[k]) >= 0
          /\ \A k \in 1..Len(windowsSeen) :
                LET o == windowsSeen[k].outcome
                IN  o.kind = "scored" =>
                        /\ o.p <= o.q
                        /\ (o.p = o.q) <=> (TermSign(o.lambda) = 0)
                        /\ (o.p < o.q) <=> (TermSign(o.lambda) = 1))
    /\ [][(scorePc = "loop" /\ scorePc' = "loop") =>
            \/ totalLambda' = totalLambda
            \/ /\ Len(totalLambda') = Len(totalLambda) + 1
               /\ SubSeq(totalLambda', 1, Len(totalLambda)) = totalLambda
               /\ TermSign(totalLambda'[Len(totalLambda')]) >= 0]_vars

\* a total over a window with p = q and a window with p < q
C24_Witness ==
    /\ scorePc = "loop"
    /\ \E j \in 1..Len(windowsSeen) : \E k \in 1..Len(windowsSeen) :
          /\ windowsSeen[j].outcome.kind = "scored"
          /\ windowsSeen[k].outcome.kind = "scored"
          /\ windowsSeen[j].outcome.p = windowsSeen[j].outcome.q
          /\ windowsSeen[k].outcome.p < windowsSeen[k].outcome.q
    /\ Len(totalLambda) >= 2

\* C29: the result for an input of 23 symbols or more is the result for
\* its first 23 symbols in upper case; every window examined lies within
\* symbols 0..19 and its integer is spelled by those symbols alone.
C29_OnlyFirst23Read ==
    /\ (ScoreDone /\ Len(arg.seq) >= 23) =>
            ret = analyzeSequenceForScore(ToUpperCase(SubSeq(arg.seq, 1, 23)),
                                          arg.step, arg.pam)
    /\ \A k \in 1..Len(windowsSeen) :
          /\ windowsSeen[k].i >= 0
          /\ windowsSeen[k].i + 6 <= 20
          /\ windowsSeen[k].N = WindowValue(ScoredUpstream, windowsSeen[k].i)

\* a 24-symbol input in lower case that was scored over its windows
C29_Witness ==
    /\ ScoreDone
    /\ Len(arg.seq) = 24
    /\ arg.seq[24] = "T"
    /\ arg.seq[1] = "a"
    /\ Len(windowsSeen) = 15

\* C26 (as claimed): whatever the step, a call that entered the window
\* loop leaves it and returns.
C26_ScorerTerminates == (scorePc = "loop") ~> (scorePc = "done")


----------------------------------------------------------------------------
(* The pipeline tab *)

\* C28: after a file load whose parse succeeded, inputFileName is the name
\* of the file that was loaded
C28_FileNameKept ==
    (lastEvent.kind = "load" /\ lastEvent.parsed)
        => inputFileName = FileName(lastEvent.fileName)

\* the fields the pipeline adds to a row
DerivedFields == {"lambda_score", "error", "factorization_details", "specificity_score"}

\* the row out is the row in with derived fields added
Extends(out, in) ==
    /\ DOMAIN in \subseteq DOMAIN out
    /\ DOMAIN out \ DOMAIN in \subseteq DerivedFields
    /\ \A f \in DOMAIN in \ DerivedFields : out[f] = in[f]

\* C27: once the effects have run, processedData is null or has one row
\* for each row of the current inputData, in order; in particular it is
\* null when inputData is null
C27_ProcessedFromCurrentInput ==
    Quiescent =>
        \/ processedData.isNull
        \/ /\ ~inputData.isNull
           /\ Len(processedData.rows) = Len(inputData.rows)
           /\ \A k \in 1..Len(inputData.rows) :
                  Extends(processedData.rows[k], inputData.rows[k])

\* C25 (as claimed): in FASTA mode the scorer is called, for every
\* candidate that discovery found with the user's pattern, with that
\* pattern, so the motif of the candidate passes the scorer's re-check
C25_CandidatesScoredUnderUserPattern ==
    (Quiescent /\ processingMode = "fasta" /\ ~fastaContent.isNull
       /\ ~inputData.isNull) =>
        \A k \in 1..Len(inputData.rows) :
            LET call == ScorerArguments(inputData.rows[k])
            IN  /\ call.pam = pamPattern
                /\ MotifAccepts(call.pam, ToUpperCase(SubSeq(call.seq, 21, 23)))

\* a later record of the loaded file has a match of the pattern with room
\* for a protospacer, or a symbol outside ACGT
LaterRecordMatters ==
    \E r \in 2..Len(fastaContent.rows) :
        LET later == ToUpperCase(fastaContent.rows[r].sequence)
        IN  \/ ~IsValidDna(later)
            \/ \E m \in 20..Len(later) : MotifMatchesAt(pamPattern, later, m)

\* C30: for a FASTA file of several records, once discovery has finished
\* the candidates and the error are those of the first record: an invalid
\* symbol is reported for the first record only, candidates are matches in
\* the first record's sequence under its header, and a first record with
\* no match leaves no candidates whatever the later records hold.  The
\* error of a failed download, which reads no record, may have replaced the
\* error discovery left.
C30_OnlyFirstRecordScanned ==
    (Quiescent /\ processingMode = "fasta" /\ ~fastaContent.isNull /\ pamPattern # <<>>) =>
        IF ~IsValidDna(FastaSeq)
        THEN /\ inputData.isNull
             /\ error # DownloadFailed =>
                    /\ error # NoError
                    /\ error.kind = "InvalidDnaCharacter"
                    /\ error.header = FastaHeader
        ELSE /\ ~inputData.isNull => /\ RowsDescribeMatches(inputData.rows)
                                     /\ error \in {NoError, DownloadFailed}
             /\ inputData.isNull => error \in {NoCandidatesError(pamPattern), DownloadFailed}
             /\ (\A m \in 20..Len(FastaSeq) : ~MotifMatchesAt(pamPattern, FastaSeq, m))
                    => inputData.isNull

\* a file of two records has been scanned: the first record gave one
\* candidate, and the second record holds a match as well
C30_Witness ==
    /\ Quiescent
    /\ processingMode = "fasta"
    /\ ~fastaContent.isNull
    /\ Len(fastaContent.rows) = 2
    /\ LaterRecordMatters
    /\ FastaHeader # fastaContent.rows[2].header
    /\ ~inputData.isNull
    /\ Len(inputData.rows) = 1
    /\ ~processedData.isNull


====
